---- MODULE Spec2Model ----
(***************************************************************************)
(* Booking / entitlement engine of bluedreamBE.                            *)
(*                                                                         *)
(* The store is PostgreSQL behind Prisma.  prisma.$transaction(async tx)   *)
(* runs at the default READ COMMITTED level: every statement reads the     *)
(* rows committed when the statement starts, a transaction's own writes    *)
(* become visible to the others at commit, an INSERT on a unique key and   *)
(* a DELETE/UPDATE of a row wait for a concurrent uncommitted writer of    *)
(* the same key or row.  Each request handler is a process that takes one  *)
(* step per awaited store call.                                            *)
(*                                                                         *)
(* Time is counted in hours since 00:00 UTC of day 0.                      *)
(***************************************************************************)
EXTENDS Integers, Sequences, FiniteSets, TLC

(* ------------------------------ bounds -------------------------------- *)
MaxDay      == 1   \* the clock covers days 1..MaxDay
MaxSlots    == 2   \* an event's maxSlots is 1 or MaxSlots
MaxIngressi == 1   \* the ingressi a member's subscription starts with
MaxSubs     == 3   \* the Subscription table holds at most MaxSubs rows

(* --------------------------- program constants ------------------------ *)
CutoffHour == 18
RomeOffset == 1
DefaultIngressi  == 32
RegisterIngressi == 32
RegisterDays     == 30

Users           == {"u1", "u2"}
EventIds        == {1, 2}
RequestEventIds == EventIds \cup {3}
Procs           == {1, 2}
SubIds          == 1..MaxSubs
GroupInputs     == {{1}, {9}}

Levels == {"ALL", "OPEN", "ADVANCED", "DEEP"}

\* table Group as seeded: id -> level
Group == <<"OPEN", "ADVANCED", "DEEP", "ALL", "DEEP">>

LEVEL_HIERARCHY ==
  [l \in Levels |->
     CASE l = "ALL"      -> {"ALL"}
       [] l = "OPEN"     -> {"OPEN", "ALL"}
       [] l = "ADVANCED" -> {"ADVANCED", "ALL"}
       [] l = "DEEP"     -> {"DEEP", "ALL"}]

DEFAULT_RULE == [requiresSubscription |-> TRUE, allowedLevels |-> Levels]

RuleCodes ==
  {"TRY_DIVE", "COURSE_OPEN", "COURSE_ADVANCED", "COURSE_DEEP",
   "TRAINING_ALL", "TRAINING_OPEN", "TRAINING_ADVANCED", "TRAINING_DEEP",
   "OPEN_WATER_ALL", "OPEN_WATER_OPEN", "OPEN_WATER_ADVANCE", "OPEN_WATER_DEEP",
   "Y40_ALL", "Y40_OPEN", "Y40_ADVANCED", "Y40_DEEP",
   "EVENT_SPECIAL_FREE", "EVENT_SPECIAL", "EVENT_SPECIAL_OPEN",
   "EVENT_SPECIAL_ADVANCED", "EVENT_SPECIAL_DEEP"}

eventRules ==
  [c \in RuleCodes |->
     [requiresSubscription |-> c \notin {"TRY_DIVE", "EVENT_SPECIAL_FREE"},
      allowedLevels |->
        CASE c \in {"TRY_DIVE", "TRAINING_ALL", "OPEN_WATER_ALL", "Y40_ALL",
                    "EVENT_SPECIAL_FREE", "EVENT_SPECIAL"} -> {"ALL"}
          [] c \in {"COURSE_OPEN", "TRAINING_OPEN", "OPEN_WATER_OPEN", "Y40_OPEN",
                    "EVENT_SPECIAL_OPEN"} -> {"OPEN"}
          [] c \in {"COURSE_ADVANCED", "TRAINING_ADVANCED", "OPEN_WATER_ADVANCE",
                    "Y40_ADVANCED", "EVENT_SPECIAL_ADVANCED"} -> {"ADVANCED"}
          [] OTHER -> {"DEEP"}]]

\* eventRules[code] || DEFAULT_RULE
\* every category falls back to the default rule
RuleFor_Default(code) == DEFAULT_RULE

\* a default rule that admits the highest tier only
RuleFor_DeepDefault(code) ==
  IF code \in RuleCodes THEN eventRules[code]
  ELSE [requiresSubscription |-> TRUE, allowedLevels |-> {"DEEP"}]

RuleFor(code) == IF code \in RuleCodes THEN eventRules[code] ELSE DEFAULT_RULE

(* ------------------------------ responses ----------------------------- *)
\* the status the catch block of Cancel gives to every thrown error
CatchAllCode == 500
NoResponse == [code |-> 0, message |-> ""]
Resp(c, m) == [code |-> c, message |-> m]

MsgNotFound      == "Evento non trovato"
MsgPastBook      == "Non puoi prenotare eventi passati"
MsgLateBook      == "Non puoi prenotare eventi del giorno corrente dopo le 18:00"
MsgPastCancel    == "Non puoi disdire eventi passati"
MsgLateCancel    == "Non puoi disdire eventi del giorno corrente dopo le 18:00"
MsgUnavailable   == "Evento non disponibile"
MsgFull          == "Evento pieno"
MsgNoIngressi    == "Non hai piu ingressi disponibili"
MsgNoSub         == "Subscription non valida"
MsgLevel         == "Livello utente non autorizzato per questo evento"
MsgInsufficient  == "Ingressi insufficienti"
MsgAlreadyBooked == "Sei gia prenotato"
MsgDeleteMissing == "Record to delete does not exist"
MsgNotBooked     == "Prenotazione non trovata"
MsgNoActiveSub   == "Subscription attiva non trovata"
MsgCancelled     == "Prenotazione cancellata"
MsgRegistered    == "Utente gia registrato"
MsgRegisterError == "Errore nella registrazione"
MsgNotPending    == "Subscription gia attiva o non trovata"
MsgZod           == "endDate must be after startDate"
MsgForeignKey    == "Foreign key constraint failed"

(* ------------------------------- state -------------------------------- *)
VARIABLES
  now,         \* the wall clock, an instant in hours (UTC)
  tz,          \* UTC offset (hours) of the server process's local timezone
  events,      \* table Event:        id -> [date, maxSlots, status, category]
  subs,        \* table Subscription: id -> [userId, status, ingressi, startDate, endDate]
  users,       \* table User:         id -> status ("NONE" when there is no row)
  userGroups,  \* table UserGroup: rows [userId, groupId, subscriptionId, validFrom, validTo, isActive]
  signups,     \* table EventSignup: number of committed rows per <<userId, eventId>>
  procs,       \* request handlers in flight: [pc, userId, eventId, sub, rows,
               \* held, win, groups, at, booked (history: the pair had a Signup at the call),
               \* cookie (the refresh token the request carries)]
  last,        \* the response just sent: [op, userId, eventId, res]
  granted,     \* history: ingressi every subscription started with
  rt,          \* history: the last successful Book and the values before it
  race,        \* history: two members' Book calls racing for one event
  refreshToken, \* column User.refreshToken: userId -> the stored token (NoToken for null)
  spent        \* history: refresh tokens used for a refresh, replaced or logged out

vars == <<now, tz, events, users, subs, userGroups, signups, procs, last, granted, rt, race,
          refreshToken, spent>>

(* ------------------------------- clock -------------------------------- *)
\* the instants the clock takes: 17:00 and 18:00 Rome time of day 1, then
\* 17:00 of every later day
Instants ==
  {24 + h - RomeOffset : h \in {CutoffHour - 1, CutoffHour}}
    \cup {d * 24 + (CutoffHour - 1) - RomeOffset : d \in 2..MaxDay}
FirstInstant == CHOOSE t \in Instants : \A x \in Instants : t <= x
FarFuture == (MaxDay + 2) * 24

\* A JavaScript Date is modelled by its instant; its local fields are those
\* of instant + offset, where offset is the server's UTC offset.
\* getNowItaly(): the Rome wall clock re-read as a local time
getNowItaly(t, offset) == (t + RomeOffset) - offset
\* stripTime(d): local midnight of d, identified by its local day number
stripTime(d, offset) == (d + offset) \div 24
\* d.getHours()
getHours(d, offset) == (d + offset) % 24
\* the Date Prisma returns for a DATE column: midnight UTC of that day
DateColumn(day) == day * 24

(* ------------------------------ queries ------------------------------- *)
NoSub == [userId |-> "", status |-> "NONE", ingressi |-> 0, startDate |-> 0, endDate |-> 0]

RECURSIVE SumOver(_, _)
SumOver(S, f) ==
  IF S = {} THEN 0
  ELSE LET x == CHOOSE y \in S : TRUE IN f[x] + SumOver(S \ {x}, f)

\* event.signups.length
NumSignups(e) == SumOver({<<u, e>> : u \in Users}, signups)
\* the EventSignup rows of a user
NumSignupsBy(u) == SumOver({<<u, e>> : e \in EventIds}, signups)

\* where: { userId, status: 'ACTIVE', startDate: { lte: now }, endDate: { gte: now } }
ActiveSubsInWindow(u, t) ==
  {s \in SubIds : /\ subs[s].userId = u
                  /\ subs[s].status = "ACTIVE"
                  /\ subs[s].startDate <= t
                  /\ subs[s].endDate >= t}

\* where: { userId, status: 'ACTIVE' }
ActiveSubs(u) == {s \in SubIds : subs[s].userId = u /\ subs[s].status = "ACTIVE"}

\* findFirst without orderBy returns any matching row, or null (0)
FindFirst(rows) == IF rows = {} THEN {0} ELSE rows

\* where: { userId, isActive: true, validFrom: { lte: now }, validTo: { gte: now } }
activeUserGroups(u, t) ==
  {g \in userGroups : /\ g.userId = u
                      /\ g.isActive
                      /\ g.validFrom <= t
                      /\ g.validTo >= t}

hasValidSubscription(u, t) == activeUserGroups(u, t) # {}

uniqueUserLevels(u, t) ==
  UNION {LEVEL_HIERARCHY[Group[g.groupId]] : g \in activeUserGroups(u, t)}

(* --------------------------- cutoff policy ---------------------------- *)
Allowed == [ok |-> TRUE, message |-> ""]
Denied(m) == [ok |-> FALSE, message |-> m]

canBookEventByEventId(e) ==
  IF e \notin DOMAIN events THEN Denied(MsgNotFound)
  ELSE LET nowIt    == getNowItaly(now, tz)
           today    == stripTime(nowIt, tz)
           eventDay == stripTime(DateColumn(events[e].date), tz)
       IN  IF eventDay < today THEN Denied(MsgPastBook)
           ELSE IF eventDay = today /\ getHours(nowIt, tz) >= CutoffHour
             THEN Denied(MsgLateBook)
           ELSE Allowed

\* a cancellation cutoff one hour later than the booking cutoff
canCancelEventByEventId_Later(e) ==
  IF e \notin DOMAIN events THEN Denied(MsgNotFound)
  ELSE LET nowIt    == getNowItaly(now, tz)
           today    == stripTime(nowIt, tz)
           eventDay == stripTime(DateColumn(events[e].date), tz)
       IN  IF eventDay < today THEN Denied(MsgPastCancel)
           ELSE IF eventDay = today /\ getHours(nowIt, tz) > CutoffHour
             THEN Denied(MsgLateCancel)
           ELSE Allowed

canCancelEventByEventId(e) ==
  IF e \notin DOMAIN events THEN Denied(MsgNotFound)
  ELSE LET nowIt    == getNowItaly(now, tz)
           today    == stripTime(nowIt, tz)
           eventDay == stripTime(DateColumn(events[e].date), tz)
       IN  IF eventDay < today THEN Denied(MsgPastCancel)
           ELSE IF eventDay = today /\ getHours(nowIt, tz) >= CutoffHour
             THEN Denied(MsgLateCancel)
           ELSE Allowed

(* ------------------------ advisory business check --------------------- *)
\* s is the row the subscription findFirst returned (0 for null)
canBookEvent(u, e, s) ==
  IF e \notin DOMAIN events THEN Denied(MsgNotFound)
  ELSE IF events[e].status # "SCHEDULED" THEN Denied(MsgUnavailable)
  ELSE IF NumSignups(e) >= events[e].maxSlots THEN Denied(MsgFull)
  ELSE IF (IF s = 0 THEN 0 ELSE subs[s].ingressi) <= 0 THEN Denied(MsgNoIngressi)
  ELSE LET rule == RuleFor(events[e].category)
       IN  IF rule.requiresSubscription /\ ~hasValidSubscription(u, now)
             THEN Denied(MsgNoSub)
           ELSE IF rule.allowedLevels \cap uniqueUserLevels(u, now) = {}
             THEN Denied(MsgLevel)
           ELSE Allowed

(* ------------------------------- tokens ------------------------------- *)
\* jwt.sign of the user's payload: the string is a function of the payload and
\* of iat, the instant of signing, so two tokens signed for one user at one
\* instant are the same token; a refresh token expires 30 days after iat
NoToken == [userId |-> "", iat |-> 0]
generateRefreshToken(u, t) == [userId |-> u, iat |-> t]

(* --------------------------- request handlers ------------------------- *)
IdleProc == [pc |-> "idle", userId |-> "", eventId |-> 0, sub |-> 0,
             rows |-> {}, held |-> {}, win |-> <<0, 0>>, groups |-> {}, at |-> 0,
             booked |-> FALSE, cookie |-> NoToken]

NoAnswer == [op |-> "none", userId |-> "", eventId |-> 0, res |-> NoResponse]

Idle(p) == procs[p].pc = "idle"

\* the handler of p has answered with response r
Answer(p, op, u, e, r) ==
  /\ procs' = [procs EXCEPT ![p] = IdleProc]
  /\ last' = [op |-> op, userId |-> u, eventId |-> e, res |-> r]

\* the handler of p goes on to the step pcNext
Goto(p, u, e, s, pcNext) ==
  /\ procs' = [procs EXCEPT ![p] = [IdleProc EXCEPT !.pc = pcNext, !.userId = u,
                                                   !.eventId = e, !.sub = s,
                                                   !.booked = procs[p].booked]]
  /\ last' = NoAnswer

Key(p) == <<procs[p].userId, procs[p].eventId>>

\* another transaction holds an uncommitted INSERT of the key of p
PendingInsert(p) ==
  \E q \in Procs \ {p} : procs[q].pc = "b_update" /\ Key(q) = Key(p)

\* another transaction holds an uncommitted DELETE of the row of p
PendingDelete(p) ==
  \E q \in Procs \ {p} : procs[q].pc = "c_sub" /\ Key(q) = Key(p)

FreeSlots(e) == events[e].maxSlots - NumSignups(e)

UniqueViolation_Off(k) == FALSE
\* the unique index EventSignup_userId_eventId_key rejects the INSERT of key k
UniqueViolation(k) == signups[k] > 0

InsufficientCredit_NoBalance(s) == s = 0
\* if (!subscription || subscription.ingressi <= 0)
InsufficientCredit(s) == s = 0 \/ subs[s].ingressi <= 0

\* the decrement applied to every subscription of the table
Decrement_All(s) == [x \in SubIds |-> [subs[x] EXCEPT !.ingressi = @ - 1]]

Decrement_None(s) == subs
\* data: { ingressi: { decrement: 1 } } on the subscription s
Decrement(s) == [subs EXCEPT ![s].ingressi = @ - 1]

(* ---- history variables: they record, they never influence a handler --- *)
NoRt == [phase |-> "none", proc |-> 0, userId |-> "", eventId |-> 0,
         ingressi |-> [s \in SubIds |-> 0], free |-> 0]

\* rt after a step that is not part of a Book/Cancel round trip
RtBooked(u, e) ==
  [phase |-> "booked", proc |-> 0, userId |-> u, eventId |-> e,
   ingressi |-> [x \in SubIds |-> subs[x].ingressi], free |-> FreeSlots(e)]

RtCancelStart(p, u, e) ==
  IF rt.phase = "booked" /\ rt.userId = u /\ rt.eventId = e
    THEN [rt EXCEPT !.phase = "cancelling", !.proc = p]
    ELSE NoRt

RtCancelStep(p, phaseNext) ==
  IF rt.phase = "cancelling" /\ rt.proc = p
    THEN [rt EXCEPT !.phase = phaseNext]
    ELSE NoRt

NoRace == [phase |-> "none", eventId |-> 0, k |-> 0, left |-> 0,
           ok |-> 0, full |-> 0, other |-> 0]

\* a second member's Book on e passes the checks while the first member's
\* Book on e has not yet read anything inside its transaction
RaceStarts(p, u, e) ==
  /\ signups[<<u, e>>] = 0
  /\ \E q \in Procs \ {p} :
       /\ procs[q].pc = "b_event"
       /\ procs[q].eventId = e
       /\ procs[q].userId # u
       /\ signups[Key(q)] = 0

RaceOnStart(p, u, e) ==
  IF RaceStarts(p, u, e)
    THEN [phase |-> "run", eventId |-> e, k |-> FreeSlots(e), left |-> Cardinality(Procs),
          ok |-> 0, full |-> 0, other |-> 0]
    ELSE NoRace

RaceOnGoto == IF race.phase = "run" THEN race ELSE NoRace

RaceOnAnswer(r) ==
  IF race.phase = "run"
    THEN [race EXCEPT !.left  = @ - 1,
                      !.phase = IF race.left = 1 THEN "done" ELSE "run",
                      !.ok    = IF r.code = 201 THEN @ + 1 ELSE @,
                      !.full  = IF r = Resp(403, MsgFull) THEN @ + 1 ELSE @,
                      !.other = IF r.code # 201 /\ r # Resp(403, MsgFull) THEN @ + 1 ELSE @]
    ELSE NoRace

(* POST /user/events/book: the two checks made before the transaction *)
BookStart(p, u, e) ==
  /\ Idle(p)
  /\ LET tc == canBookEventByEventId(e)
     IN  IF ~tc.ok
           THEN /\ Answer(p, "book", u, e, Resp(403, tc.message))
                /\ race' = NoRace
           ELSE \E s \in FindFirst(ActiveSubsInWindow(u, now)) :
                  LET bc == canBookEvent(u, e, s)
                  IN  IF ~bc.ok
                        THEN /\ Answer(p, "book", u, e, Resp(403, bc.message))
                             /\ race' = NoRace
                        ELSE /\ procs' = [procs EXCEPT ![p] =
                                            [IdleProc EXCEPT !.pc = "b_event", !.userId = u,
                                                             !.eventId = e,
                                                             !.booked = signups[<<u, e>>] > 0]]
                             /\ last' = NoAnswer
                             /\ race' = RaceOnStart(p, u, e)
  /\ rt' = NoRt
  /\ UNCHANGED <<now, tz, events, users, subs, userGroups, signups, granted, refreshToken, spent>>

(* tx.event.findUnique({ include: { signups: true } }) and its two checks *)
BookTxEvent(p) ==
  /\ procs[p].pc = "b_event"
  /\ LET u == procs[p].userId
         e == procs[p].eventId
     IN  IF e \notin DOMAIN events \/ events[e].status # "SCHEDULED"
           THEN /\ Answer(p, "book", u, e, Resp(403, MsgUnavailable))
                /\ race' = RaceOnAnswer(Resp(403, MsgUnavailable))
         ELSE IF NumSignups(e) >= events[e].maxSlots
           THEN /\ Answer(p, "book", u, e, Resp(403, MsgFull))
                /\ race' = RaceOnAnswer(Resp(403, MsgFull))
         ELSE /\ Goto(p, u, e, 0, "b_sub")
              /\ race' = RaceOnGoto
  /\ rt' = NoRt
  /\ UNCHANGED <<now, tz, events, users, subs, userGroups, signups, granted, refreshToken, spent>>

(* tx.subscription.findFirst(...) and the ingressi check *)
BookTxSub(p) ==
  /\ procs[p].pc = "b_sub"
  /\ LET u == procs[p].userId
         e == procs[p].eventId
     IN  \E s \in FindFirst(ActiveSubsInWindow(u, now)) :
           IF InsufficientCredit(s)
             THEN /\ Answer(p, "book", u, e, Resp(403, MsgInsufficient))
                  /\ race' = RaceOnAnswer(Resp(403, MsgInsufficient))
             ELSE /\ Goto(p, u, e, s, "b_insert")
                  /\ race' = RaceOnGoto
  /\ rt' = NoRt
  /\ UNCHANGED <<now, tz, events, users, subs, userGroups, signups, granted, refreshToken, spent>>

\* the INSERT made as an upsert: an existing row is not an error
BookTxInsert_Upsert(p) ==
  /\ procs[p].pc = "b_insert"
  /\ ~PendingInsert(p)
  /\ ~PendingDelete(p)
  /\ Goto(p, procs[p].userId, procs[p].eventId, procs[p].sub, "b_update")
  /\ race' = RaceOnGoto
  /\ rt' = NoRt
  /\ UNCHANGED <<now, tz, events, users, subs, userGroups, signups, granted, refreshToken, spent>>

\* the decrement made ahead of the INSERT and kept when the INSERT fails
BookTxInsert_NoRollback(p) ==
  /\ procs[p].pc = "b_insert"
  /\ ~PendingInsert(p)
  /\ ~PendingDelete(p)
  /\ LET u == procs[p].userId
         e == procs[p].eventId
     IN  IF UniqueViolation(<<u, e>>)
           THEN /\ Answer(p, "book", u, e, Resp(409, MsgAlreadyBooked))
                /\ race' = RaceOnAnswer(Resp(409, MsgAlreadyBooked))
                /\ subs' = Decrement(procs[p].sub)
           ELSE /\ Goto(p, u, e, procs[p].sub, "b_update")
                /\ race' = RaceOnGoto
                /\ subs' = subs
  /\ rt' = NoRt
  /\ UNCHANGED <<now, tz, events, users, userGroups, signups, granted, refreshToken, spent>>

(* tx.eventSignup.create: waits for a concurrent writer of the same key,  *)
(* fails on EventSignup_userId_eventId_key, otherwise stays uncommitted   *)
BookTxInsert(p) ==
  /\ procs[p].pc = "b_insert"
  /\ ~PendingInsert(p)
  /\ ~PendingDelete(p)
  /\ LET u == procs[p].userId
         e == procs[p].eventId
     IN  IF UniqueViolation(<<u, e>>)
           THEN /\ Answer(p, "book", u, e, Resp(409, MsgAlreadyBooked))
                /\ race' = RaceOnAnswer(Resp(409, MsgAlreadyBooked))
           ELSE /\ Goto(p, u, e, procs[p].sub, "b_update")
                /\ race' = RaceOnGoto
  /\ rt' = NoRt
  /\ UNCHANGED <<now, tz, events, users, subs, userGroups, signups, granted, refreshToken, spent>>

(* tx.subscription.update({ ingressi: { decrement: 1 } }), then commit *)
BookTxUpdate(p) ==
  /\ procs[p].pc = "b_update"
  /\ LET u == procs[p].userId
         e == procs[p].eventId
         s == procs[p].sub
     IN  /\ signups' = [signups EXCEPT ![<<u, e>>] = @ + 1]
         /\ subs' = Decrement(s)
         /\ Answer(p, "book", u, e, Resp(201, ""))
         /\ race' = RaceOnAnswer(Resp(201, ""))
         /\ rt' = RtBooked(u, e)
  /\ UNCHANGED <<now, tz, events, users, userGroups, granted, refreshToken, spent>>

(* POST /user/events/cancel: the cutoff check made before the transaction *)
CancelStart(p, u, e) ==
  /\ Idle(p)
  /\ LET cc == canCancelEventByEventId(e)
     IN  IF ~cc.ok
           THEN /\ Answer(p, "cancel", u, e, Resp(403, cc.message))
                /\ rt' = NoRt
           ELSE /\ Goto(p, u, e, 0, "c_delete")
                /\ rt' = RtCancelStart(p, u, e)
  /\ race' = NoRace
  /\ UNCHANGED <<now, tz, events, users, subs, userGroups, signups, granted, refreshToken, spent>>

(* tx.eventSignup.delete({ where: { userId_eventId } }): waits for a      *)
(* concurrent deleter of the row, throws when the row does not exist      *)
CancelTxDelete(p) ==
  /\ procs[p].pc = "c_delete"
  /\ ~PendingDelete(p)
  /\ LET u == procs[p].userId
         e == procs[p].eventId
     IN  IF signups[<<u, e>>] = 0
           THEN /\ Answer(p, "cancel", u, e, Resp(CatchAllCode, MsgDeleteMissing))
                /\ rt' = NoRt
           ELSE /\ Goto(p, u, e, 0, "c_sub")
                /\ rt' = RtCancelStep(p, "cancelling")
  /\ race' = NoRace
  /\ UNCHANGED <<now, tz, events, users, subs, userGroups, signups, granted, refreshToken, spent>>

\* the delete made outside the transaction and kept when the lookup fails
CancelTxSub_NoRollback(p) ==
  /\ procs[p].pc = "c_sub"
  /\ LET u == procs[p].userId
         e == procs[p].eventId
     IN  \E s \in FindFirst(ActiveSubs(u)) :
           IF s = 0
             THEN /\ Answer(p, "cancel", u, e, Resp(CatchAllCode, MsgNoActiveSub))
                  /\ rt' = NoRt
                  /\ signups' = [signups EXCEPT ![<<u, e>>] = 0]
                  /\ subs' = subs
             ELSE /\ signups' = [signups EXCEPT ![<<u, e>>] = 0]
                  /\ subs' = [subs EXCEPT ![s].ingressi = @ + 1]
                  /\ Answer(p, "cancel", u, e, Resp(200, MsgCancelled))
                  /\ rt' = RtCancelStep(p, "restored")
  /\ race' = NoRace
  /\ UNCHANGED <<now, tz, events, users, userGroups, granted, refreshToken, spent>>

(* tx.subscription.findFirst({ userId, status: 'ACTIVE' }), then the      *)
(* increment and the commit, or the throw that rolls the delete back      *)
CancelTxSub(p) ==
  /\ procs[p].pc = "c_sub"
  /\ LET u == procs[p].userId
         e == procs[p].eventId
     IN  \E s \in FindFirst(ActiveSubs(u)) :
           IF s = 0
             THEN /\ Answer(p, "cancel", u, e, Resp(CatchAllCode, MsgNoActiveSub))
                  /\ rt' = NoRt
                  /\ UNCHANGED <<signups, subs>>
             ELSE /\ signups' = [signups EXCEPT ![<<u, e>>] = 0]
                  /\ subs' = [subs EXCEPT ![s].ingressi = @ + 1]
                  /\ Answer(p, "cancel", u, e, Resp(200, MsgCancelled))
                  /\ rt' = RtCancelStep(p, "restored")
  /\ race' = NoRace
  /\ UNCHANGED <<now, tz, events, users, userGroups, granted, refreshToken, spent>>

(* the wall clock advances *)
Tick ==
  /\ \E t \in Instants : t > now /\ now' = t
  /\ race' = NoRace
  /\ UNCHANGED <<tz, events, users, subs, userGroups, signups, procs, last, granted, rt,
               refreshToken, spent, refreshToken, spent>>

Membership(u, g, s, from, to) ==
  [userId |-> u, groupId |-> g, subscriptionId |-> s,
   validFrom |-> from, validTo |-> to, isActive |-> TRUE]

(* ------------------------ subscription lifecycle ---------------------- *)
FreeSubIds == {s \in SubIds : subs[s].status = "NONE"}
\* the id the SERIAL column gives the next row
NextSubId == CHOOSE n \in FreeSubIds : \A m \in FreeSubIds : n <= m

\* another transaction holds an uncommitted UPDATE of one of the rows
RowsLocked(p, rows) ==
  \E q \in Procs \ {p} : procs[q].pc = "s_create" /\ procs[q].held \cap rows # {}

(* POST /auth/register: user.create, then subscription.create PENDING,  *)
(* then createPayment, which throws for a provider it does not support   *)
Register(u, supported) ==
  /\ FreeSubIds # {}
  /\ IF users[u] # "NONE"
       THEN /\ last' = [op |-> "register", userId |-> u, eventId |-> 0,
                        res |-> Resp(409, MsgRegistered)]
            /\ UNCHANGED <<users, subs, granted, refreshToken>>
       ELSE /\ users' = [users EXCEPT ![u] = "SUBSCRIBED"]
            /\ subs' = [subs EXCEPT ![NextSubId] =
                          [userId |-> u, status |-> "PENDING",
                           ingressi |-> RegisterIngressi,
                           startDate |-> now, endDate |-> now + RegisterDays * 24]]
            /\ granted' = [granted EXCEPT ![NextSubId] = RegisterIngressi]
            /\ last' = [op |-> "register", userId |-> u, eventId |-> 0,
                        res |-> IF supported THEN Resp(201, "")
                                             ELSE Resp(500, MsgRegisterError)]
            /\ refreshToken' = IF supported
                                 THEN [refreshToken EXCEPT ![u] = generateRefreshToken(u, now)]
                                 ELSE refreshToken
  /\ UNCHANGED <<now, tz, events, userGroups, signups, procs, rt, race, spent>>

(* POST /auth/payment/confirm: updateMany({ id, status: 'PENDING' }) *)
PaymentConfirm(s) ==
  /\ ~RowsLocked(0, {s})
  /\ IF subs[s].status = "PENDING"
       THEN /\ subs' = [subs EXCEPT ![s].status = "ACTIVE"]
            /\ last' = [op |-> "confirm", userId |-> subs[s].userId, eventId |-> 0,
                        res |-> Resp(200, "")]
       ELSE /\ last' = [op |-> "confirm", userId |-> "", eventId |-> 0,
                        res |-> Resp(400, MsgNotPending)]
            /\ UNCHANGED subs
  /\ UNCHANGED <<now, tz, events, users, userGroups, signups, procs, granted, rt, race,
               refreshToken, spent, refreshToken, spent>>

(* createSubscriptionWithGroups: the zod parse, then the transaction      *)
(* begins and its updateMany statement takes its snapshot of the rows     *)
(* { userId, status: ACTIVE }                                             *)
CreateSubStart(p, u, win, groups) ==
  /\ Idle(p)
  /\ IF ~(win[2] > win[1])
       THEN Answer(p, "create", u, 0, Resp(500, MsgZod))
       ELSE /\ procs' = [procs EXCEPT ![p] =
                           [IdleProc EXCEPT !.pc = "s_update", !.userId = u,
                                            !.rows = ActiveSubs(u), !.win = win,
                                            !.groups = groups, !.at = now]]
            /\ last' = NoAnswer
  /\ UNCHANGED <<now, tz, events, users, subs, userGroups, signups, granted, rt, race,
               refreshToken, spent, refreshToken, spent>>

(* tx.subscription.updateMany: waits for the rows another transaction has *)
(* updated, re-checks the where clause on each and locks the rows it      *)
(* changes to CANCELLED                                                   *)
CreateSubTxUpdate(p) ==
  /\ procs[p].pc = "s_update"
  /\ ~RowsLocked(p, procs[p].rows)
  /\ procs' = [procs EXCEPT ![p].pc = "s_create",
                            ![p].held = {r \in procs[p].rows :
                                           /\ subs[r].userId = procs[p].userId
                                           /\ subs[r].status = "ACTIVE"}]
  /\ last' = NoAnswer
  /\ UNCHANGED <<now, tz, events, users, subs, userGroups, signups, granted, rt, race,
               refreshToken, spent, refreshToken, spent>>

(* tx.subscription.create, tx.userGroup.createMany, then commit; a        *)
(* foreign key failure throws and rolls the transaction back              *)
CreateSubTxCreate(p) ==
  /\ procs[p].pc = "s_create"
  /\ FreeSubIds # {}
  /\ LET u == procs[p].userId
         n == NextSubId
     IN  IF users[u] = "NONE" \/ ~(procs[p].groups \subseteq DOMAIN Group)
           THEN /\ Answer(p, "create", u, 0, Resp(500, MsgForeignKey))
                /\ UNCHANGED <<subs, userGroups, granted>>
           ELSE /\ subs' = [s \in SubIds |->
                              IF s = n
                                THEN [userId |-> u, status |-> "ACTIVE",
                                      ingressi |-> DefaultIngressi,
                                      startDate |-> procs[p].win[1],
                                      endDate |-> procs[p].win[2]]
                              ELSE IF s \in procs[p].held
                                THEN [subs[s] EXCEPT !.status = "CANCELLED",
                                                     !.endDate = procs[p].at]
                              ELSE subs[s]]
                /\ userGroups' = userGroups \cup
                     {Membership(u, g, n, procs[p].win[1], procs[p].win[2]) :
                        g \in procs[p].groups}
                /\ granted' = [granted EXCEPT ![n] = DefaultIngressi]
                /\ Answer(p, "create", u, 0, Resp(201, ""))
  /\ UNCHANGED <<now, tz, events, users, signups, rt, race, refreshToken, spent>>

(* ------------------------------ initial state ------------------------- *)
Init ==
  /\ now = FirstInstant
  /\ tz = 0
  /\ \E m1 \in {1, MaxSlots} : \E st \in {"SCHEDULED", "CANCELLED"} :
       events = [e \in EventIds |->
                   IF e = 1
                     THEN [date |-> 1, maxSlots |-> m1, status |-> "SCHEDULED",
                           category |-> "TRAINING_ALL"]
                     ELSE [date |-> MaxDay + 1, maxSlots |-> MaxSlots, status |-> st,
                           category |-> "TRAINING_DEEP"]]
  /\ \E extra \in {"NONE", "ACTIVE"} :
       subs = [s \in SubIds |->
                 CASE s = 1 -> [userId |-> "u1", status |-> "ACTIVE", ingressi |-> 1,
                                startDate |-> 0, endDate |-> FirstInstant]
                   [] s = 2 -> [userId |-> "u2", status |-> "ACTIVE",
                                ingressi |-> MaxIngressi,
                                startDate |-> 0, endDate |-> FarFuture]
                   [] s = 3 /\ extra = "ACTIVE" ->
                               [userId |-> "u2", status |-> "ACTIVE", ingressi |-> 1,
                                startDate |-> 0, endDate |-> FarFuture]
                   [] OTHER -> NoSub]
  /\ users = [u \in Users |-> "SUBSCRIBED"]
  /\ userGroups = {Membership("u1", 1, 1, 0, FarFuture), Membership("u2", 3, 2, 0, FarFuture)}
  /\ signups = [k \in Users \X EventIds |-> 0]
  /\ procs = [p \in Procs |-> IdleProc]
  /\ last = NoAnswer
  /\ granted = [s \in SubIds |-> subs[s].ingressi]
  /\ rt = NoRt
  /\ race = NoRace
  /\ refreshToken = [u \in Users |-> NoToken]
  /\ spent = {}

Next ==
  \/ \E p \in Procs, u \in Users, e \in RequestEventIds : BookStart(p, u, e)
  \/ \E p \in Procs : BookTxEvent(p)
  \/ \E p \in Procs : BookTxSub(p)
  \/ \E p \in Procs : BookTxInsert(p)
  \/ \E p \in Procs : BookTxUpdate(p)
  \/ \E p \in Procs, u \in Users, e \in RequestEventIds : CancelStart(p, u, e)
  \/ \E p \in Procs : CancelTxDelete(p)
  \/ \E p \in Procs : CancelTxSub(p)
  \/ Tick

Spec == Init /\ [][Next]_vars

\* the values of the enum SubscriptionStatus
SubscriptionStatus == {"PENDING", "ACTIVE", "EXPIRED", "CANCELLED"}

(* POST /superadmin/template/upload, sheet SUBSCRIPTIONS, a row carrying   *)
(* the id of an existing subscription and a status:                        *)
(* tx.subscription.update({ where: { id }, data: { ..., status } })        *)
ImportSubscriptionRow(s, st) ==
  /\ subs[s].status # "NONE"
  /\ ~RowsLocked(0, {s})
  /\ subs' = [subs EXCEPT ![s].status = st]
  /\ last' = [op |-> "import", userId |-> subs[s].userId, eventId |-> 0,
              res |-> Resp(200, "")]
  /\ UNCHANGED <<now, tz, events, users, userGroups, signups, procs, granted, rt, race,
               refreshToken, spent, refreshToken, spent>>

(* the subscription lifecycle, from an empty store; none of its operations *)
(* reads the clock in a condition, so the clock stays at its first instant  *)
InitSub ==
  /\ now = FirstInstant
  /\ tz = 0
  /\ events = [e \in EventIds |->
                 [date |-> e, maxSlots |-> MaxSlots, status |-> "SCHEDULED",
                  category |-> "TRAINING_ALL"]]
  /\ users = [u \in Users |-> "NONE"]
  /\ subs = [s \in SubIds |-> NoSub]
  /\ userGroups = {}
  /\ signups = [k \in Users \X EventIds |-> 0]
  /\ procs = [p \in Procs |-> IdleProc]
  /\ last = NoAnswer
  /\ granted = [s \in SubIds |-> 0]
  /\ rt = NoRt
  /\ race = NoRace
  /\ refreshToken = [u \in Users |-> NoToken]
  /\ spent = {}

NextSub ==
  \/ \E u \in Users, supported \in BOOLEAN : Register(u, supported)
  \/ \E s \in SubIds : PaymentConfirm(s)
  \/ \E p \in Procs, u \in Users, e \in {0, FarFuture}, g \in GroupInputs :
       CreateSubStart(p, u, <<0, e>>, g)
  \/ \E p \in Procs : CreateSubTxUpdate(p)
  \/ \E p \in Procs : CreateSubTxCreate(p)

SpecSub == InitSub /\ [][NextSub]_vars

(* the subscription lifecycle with the bulk import of subscription rows *)
NextLifecycle ==
  \/ \E u \in Users : Register(u, TRUE)
  \/ \E s \in SubIds : PaymentConfirm(s)
  \/ CreateSubStart(1, "u1", <<0, FarFuture>>, {1})
  \/ CreateSubTxUpdate(1)
  \/ CreateSubTxCreate(1)
  \/ \E s \in SubIds, st \in SubscriptionStatus : ImportSubscriptionRow(s, st)

SpecLifecycle == InitSub /\ [][NextLifecycle]_vars

(* the cutoff policy as a function of the instant, of the event's date and *)
(* of the UTC offset of the server's local timezone                        *)
ServerOffsets == {0 - 5, 0, RomeOffset}
CutInstants   == 0 .. (FarFuture - 1)

\* await canBookEventByEventId(eventId)
ApplyCanBook(e) ==
  /\ last' = [op |-> "canBook", userId |-> "", eventId |-> e,
              res |-> LET r == canBookEventByEventId(e)
                      IN  Resp(IF r.ok THEN 200 ELSE 403, r.message)]
  /\ UNCHANGED <<now, tz, events, users, subs, userGroups, signups, procs, granted, rt, race,
               refreshToken, spent, refreshToken, spent>>

\* await canCancelEventByEventId(eventId)
ApplyCanCancel(e) ==
  /\ last' = [op |-> "canCancel", userId |-> "", eventId |-> e,
              res |-> LET r == canCancelEventByEventId(e)
                      IN  Resp(IF r.ok THEN 200 ELSE 403, r.message)]
  /\ UNCHANGED <<now, tz, events, users, subs, userGroups, signups, procs, granted, rt, race,
               refreshToken, spent, refreshToken, spent>>

InitCutoff ==
  /\ now \in CutInstants
  /\ tz \in ServerOffsets
  /\ events = [e \in EventIds |->
                 [date |-> e, maxSlots |-> MaxSlots, status |-> "SCHEDULED",
                  category |-> "TRAINING_ALL"]]
  /\ users = [u \in Users |-> "NONE"]
  /\ subs = [s \in SubIds |-> NoSub]
  /\ userGroups = {}
  /\ signups = [k \in Users \X EventIds |-> 0]
  /\ procs = [p \in Procs |-> IdleProc]
  /\ last = NoAnswer
  /\ granted = [s \in SubIds |-> 0]
  /\ rt = NoRt
  /\ race = NoRace
  /\ refreshToken = [u \in Users |-> NoToken]
  /\ spent = {}

NextCutoff ==
  \/ \E e \in RequestEventIds : ApplyCanBook(e)
  \/ \E e \in RequestEventIds : ApplyCanCancel(e)

SpecCutoff == InitCutoff /\ [][NextCutoff]_vars

(* ------------------------- admin operations --------------------------- *)
MsgNoSubForGroups == "Non esiste una subscription attiva per assegnare i gruppi"
MsgUserIds        == "userIds non valido"
MsgAlreadySignedUp == "Utente già iscritto"

\* the groups arrays an admin sends with PUT /users/:id
AdminGroupInputs == {{1}}
\* the userIds arrays an admin sends with POST /events/:eventId/participants
UserIdInputs == {{}} \cup {{u} : u \in Users} \cup {Users}

AdminAnswer(op, u, e, r) == last' = [op |-> op, userId |-> u, eventId |-> e, res |-> r]

(* PUT /admin/users/:id with a non-empty groups array and no subscription  *)
(* data: userGroup.deleteMany({ where: { userId } }), outside a transaction *)
AdminPutGroupsDelete(p, u, groups) ==
  /\ Idle(p)
  /\ users[u] # "NONE"
  /\ groups # {}
  /\ userGroups' = {g \in userGroups : g.userId # u}
  /\ procs' = [procs EXCEPT ![p] = [IdleProc EXCEPT !.pc = "a_groups", !.userId = u,
                                                   !.groups = groups]]
  /\ last' = NoAnswer
  /\ rt' = NoRt
  /\ race' = RaceOnGoto
  /\ UNCHANGED <<now, tz, events, users, subs, signups, granted, refreshToken, spent>>

(* subscription.findFirst({ userId, status: ACTIVE }), then the 500 that   *)
(* leaves the member without memberships, or userGroup.createMany          *)
AdminPutGroupsCreate(p) ==
  /\ procs[p].pc = "a_groups"
  /\ LET u == procs[p].userId
     IN  \E s \in FindFirst(ActiveSubs(u)) :
           IF s = 0
             THEN /\ Answer(p, "putUser", u, 0, Resp(500, MsgNoSubForGroups))
                  /\ userGroups' = userGroups
             ELSE /\ userGroups' = userGroups \cup
                       {Membership(u, g, s, subs[s].startDate, subs[s].endDate) :
                          g \in procs[p].groups}
                  /\ Answer(p, "putUser", u, 0, Resp(200, ""))
  /\ rt' = NoRt
  /\ race' = RaceOnGoto
  /\ UNCHANGED <<now, tz, events, users, subs, signups, granted, refreshToken, spent>>

(* DELETE /admin/events/:id: event.update({ status: CANCELLED }) *)
AdminCancelEvent(e) ==
  /\ events' = [events EXCEPT ![e].status = "CANCELLED"]
  /\ AdminAnswer("cancelEvent", "", e, Resp(200, ""))
  /\ rt' = NoRt
  /\ race' = RaceOnGoto
  /\ UNCHANGED <<now, tz, users, subs, userGroups, signups, procs, granted, refreshToken, spent>>

(* PATCH /admin/events/:id/restore: event.update({ status: SCHEDULED }) *)
AdminRestoreEvent(e) ==
  /\ events' = [events EXCEPT ![e].status = "SCHEDULED"]
  /\ AdminAnswer("restoreEvent", "", e, Resp(200, ""))
  /\ rt' = NoRt
  /\ race' = RaceOnGoto
  /\ UNCHANGED <<now, tz, users, subs, userGroups, signups, procs, granted, refreshToken, spent>>

(* PATCH /admin/events/:id with body { maxSlots: m }: the schema accepts   *)
(* an integer >= 1, event.update writes it                                  *)
AdminPatchMaxSlots(e, m) ==
  /\ IF m >= 1
       THEN /\ events' = [events EXCEPT ![e].maxSlots = m]
            /\ AdminAnswer("patchEvent", "", e, Resp(200, ""))
       ELSE /\ events' = events
            /\ AdminAnswer("patchEvent", "", e, Resp(400, MsgZod))
  /\ rt' = NoRt
  /\ race' = RaceOnGoto
  /\ UNCHANGED <<now, tz, users, subs, userGroups, signups, procs, granted, refreshToken, spent>>

\* an INSERT of one of the keys waits for a transaction holding that key
KeysPending(e, ids) ==
  \E q \in Procs : procs[q].pc \in {"b_update", "c_sub"}
                   /\ procs[q].eventId = e /\ procs[q].userId \in ids

(* POST /admin/events/:eventId/participants:                               *)
(* eventSignup.createMany({ data, skipDuplicates: true })                  *)
AdminAddParticipants(e, ids) ==
  /\ IF ids = {}
       THEN /\ signups' = signups
            /\ AdminAnswer("addParticipants", "", e, Resp(400, MsgUserIds))
       ELSE /\ ~KeysPending(e, ids)
            /\ signups' = [k \in DOMAIN signups |->
                             IF k[2] = e /\ k[1] \in ids /\ signups[k] = 0
                               THEN 1 ELSE signups[k]]
            /\ AdminAnswer("addParticipants", "", e, Resp(201, ""))
  /\ rt' = NoRt
  /\ race' = RaceOnGoto
  /\ UNCHANGED <<now, tz, events, users, subs, userGroups, procs, granted, refreshToken, spent>>

(* POST /api/admin/aggiungi-partecipante: eventSignup.findUnique, then     *)
(* eventSignup.create when there is no row                                 *)
AdminAggiungiPartecipante(u, e) ==
  /\ ~KeysPending(e, {u})
  /\ IF signups[<<u, e>>] > 0
       THEN /\ signups' = signups
            /\ AdminAnswer("aggiungi", u, e, Resp(400, MsgAlreadySignedUp))
       ELSE /\ signups' = [signups EXCEPT ![<<u, e>>] = 1]
            /\ AdminAnswer("aggiungi", u, e, Resp(200, ""))
  /\ rt' = NoRt
  /\ race' = RaceOnGoto
  /\ UNCHANGED <<now, tz, events, users, subs, userGroups, procs, granted, refreshToken, spent>>

(* Book calls interleaved with the admin operations, from a store where    *)
(* both members hold a subscription and a group membership                 *)
InitAdmin ==
  /\ now = FirstInstant
  /\ tz = 0
  /\ events = [e \in EventIds |->
                 IF e = 1
                   THEN [date |-> 1, maxSlots |-> MaxSlots, status |-> "SCHEDULED",
                         category |-> "TRAINING_ALL"]
                   ELSE [date |-> MaxDay + 1, maxSlots |-> MaxSlots, status |-> "SCHEDULED",
                         category |-> "TRAINING_DEEP"]]
  /\ users = [u \in Users |-> "SUBSCRIBED"]
  /\ subs = [s \in SubIds |->
               CASE s = 1 -> [userId |-> "u1", status |-> "ACTIVE", ingressi |-> MaxIngressi,
                              startDate |-> 0, endDate |-> FarFuture]
                 [] s = 2 -> [userId |-> "u2", status |-> "ACTIVE", ingressi |-> MaxIngressi,
                              startDate |-> 0, endDate |-> FarFuture]
                 [] OTHER -> NoSub]
  /\ userGroups = {Membership("u1", 1, 1, 0, FarFuture), Membership("u2", 3, 2, 0, FarFuture)}
  /\ signups = [k \in Users \X EventIds |-> 0]
  /\ procs = [p \in Procs |-> IdleProc]
  /\ last = NoAnswer
  /\ granted = [s \in SubIds |-> subs[s].ingressi]
  /\ rt = NoRt
  /\ race = NoRace
  /\ refreshToken = [u \in Users |-> NoToken]
  /\ spent = {}

\* the member whose groups the admin replaces, and the event the admin edits
AdminUsers  == {"u2"}
AdminEvents == {1}

NextAdmin ==
  \/ \E p \in Procs, u \in Users, e \in EventIds : BookStart(p, u, e)
  \/ \E p \in Procs : BookTxEvent(p)
  \/ \E p \in Procs : BookTxSub(p)
  \/ \E p \in Procs : BookTxInsert(p)
  \/ \E p \in Procs : BookTxUpdate(p)
  \/ \E p \in Procs, u \in AdminUsers, g \in AdminGroupInputs : AdminPutGroupsDelete(p, u, g)
  \/ \E p \in Procs : AdminPutGroupsCreate(p)
  \/ \E e \in AdminEvents : AdminCancelEvent(e)
  \/ \E e \in AdminEvents : AdminRestoreEvent(e)
  \/ \E e \in AdminEvents, m \in 0..MaxSlots : AdminPatchMaxSlots(e, m)
  \/ \E e \in AdminEvents, ids \in UserIdInputs : AdminAddParticipants(e, ids)
  \/ \E u \in Users, e \in AdminEvents : AdminAggiungiPartecipante(u, e)

SpecAdmin == InitAdmin /\ [][NextAdmin]_vars

(* tier resolution as a function of the member's UserGroup rows and of the *)
(* instant it is evaluated at                                              *)
TierInstants == 1 .. 3
TierWindows  == {<<0, 2>>, <<1, 2>>, <<2, 3>>}
TierGroups   == {1, 2, 3, 4}

\* the UserGroup rows a member can hold
MembershipRows(u) ==
  {[userId |-> u, groupId |-> g, subscriptionId |-> 1,
    validFrom |-> w[1], validTo |-> w[2], isActive |-> a] :
     g \in TierGroups, w \in TierWindows, a \in BOOLEAN}

\* canBookEvent's findMany on userGroup and the expansion of the levels
ResolveLevels(u) ==
  /\ last' = [op |-> "resolveLevels", userId |-> u, eventId |-> 0,
              res |-> [code |-> 200, message |-> "",
                       levels |-> uniqueUserLevels(u, now),
                       valid |-> hasValidSubscription(u, now)]]
  /\ UNCHANGED <<now, tz, events, users, subs, userGroups, signups, procs, granted, rt, race,
               refreshToken, spent, refreshToken, spent>>

\* CREATE TYPE "GroupLevel": the levels the column Group.level can hold
GroupLevel == {"ALL", "OPEN", "ADVANCED", "DEPTH"}

\* LEVEL_HIERARCHY[level] inside flatMap: a level without an entry yields
\* the single element undefined
ExpandLevel(level) ==
  /\ last' = [op |-> "expandLevel", userId |-> "", eventId |-> 0,
              res |-> [code |-> 200, message |-> level,
                       levels |-> IF level \in DOMAIN LEVEL_HIERARCHY
                                    THEN LEVEL_HIERARCHY[level]
                                    ELSE {"undefined"}]]
  /\ UNCHANGED <<now, tz, events, users, subs, userGroups, signups, procs, granted, rt, race,
               refreshToken, spent, refreshToken, spent>>

InitTiers ==
  /\ now \in TierInstants
  /\ tz = 0
  /\ events = [e \in EventIds |->
                 [date |-> e, maxSlots |-> MaxSlots, status |-> "SCHEDULED",
                  category |-> "TRAINING_ALL"]]
  /\ users = [u \in Users |-> "SUBSCRIBED"]
  /\ subs = [s \in SubIds |-> NoSub]
  /\ userGroups \in {{}} \cup {{a, b} : a, b \in MembershipRows("u1")}
  /\ signups = [k \in Users \X EventIds |-> 0]
  /\ procs = [p \in Procs |-> IdleProc]
  /\ last = NoAnswer
  /\ granted = [s \in SubIds |-> 0]
  /\ rt = NoRt
  /\ race = NoRace
  /\ refreshToken = [u \in Users |-> NoToken]
  /\ spent = {}

NextTiers ==
  \/ \E u \in Users : ResolveLevels(u)
  \/ \E level \in Levels \cup GroupLevel : ExpandLevel(level)

SpecTiers == InitTiers /\ [][NextTiers]_vars

(* the business check as a function of the event's category code and of  *)
(* the group the member belongs to                                        *)
CategoryInputs == RuleCodes \cup {"UNLISTED"}

\* await canBookEvent(userId, eventId)
ApplyCanBookEvent(u, e) ==
  /\ \E s \in FindFirst(ActiveSubsInWindow(u, now)) :
       last' = [op |-> "canBookEvent", userId |-> u, eventId |-> e,
                res |-> LET r == canBookEvent(u, e, s)
                        IN  Resp(IF r.ok THEN 200 ELSE 403, r.message)]
  /\ UNCHANGED <<now, tz, events, users, subs, userGroups, signups, procs, granted, rt, race,
               refreshToken, spent, refreshToken, spent>>

InitRules ==
  /\ now = FirstInstant
  /\ tz = 0
  /\ \E c \in CategoryInputs :
       events = [e \in EventIds |->
                   [date |-> MaxDay + 1, maxSlots |-> MaxSlots, status |-> "SCHEDULED",
                    category |-> IF e = 1 THEN c ELSE "TRAINING_ALL"]]
  /\ users = [u \in Users |-> "SUBSCRIBED"]
  /\ subs = [s \in SubIds |->
               IF s = 1 THEN [userId |-> "u1", status |-> "ACTIVE", ingressi |-> 1,
                              startDate |-> 0, endDate |-> FarFuture]
                        ELSE NoSub]
  /\ userGroups \in {{}} \cup {{Membership("u1", g, 1, 0, FarFuture)} : g \in TierGroups}
  /\ signups = [k \in Users \X EventIds |-> 0]
  /\ procs = [p \in Procs |-> IdleProc]
  /\ last = NoAnswer
  /\ granted = [s \in SubIds |-> subs[s].ingressi]
  /\ rt = NoRt
  /\ race = NoRace
  /\ refreshToken = [u \in Users |-> NoToken]
  /\ spent = {}

NextRules == \E u \in Users, e \in RequestEventIds : ApplyCanBookEvent(u, e)

SpecRules == InitRules /\ [][NextRules]_vars

(* Book calls alone, from a store where each member has credit for two    *)
(* bookings and each event has room for two                               *)
InitDouble ==
  /\ now = FirstInstant
  /\ tz = 0
  /\ events = [e \in EventIds |->
                 [date |-> MaxDay + 1, maxSlots |-> MaxSlots, status |-> "SCHEDULED",
                  category |-> "TRAINING_ALL"]]
  /\ users = [u \in Users |-> "SUBSCRIBED"]
  /\ subs = [s \in SubIds |->
               CASE s = 1 -> [userId |-> "u1", status |-> "ACTIVE",
                              ingressi |-> MaxIngressi + 1,
                              startDate |-> 0, endDate |-> FarFuture]
                 [] s = 2 -> [userId |-> "u2", status |-> "ACTIVE",
                              ingressi |-> MaxIngressi + 1,
                              startDate |-> 0, endDate |-> FarFuture]
                 [] OTHER -> NoSub]
  /\ userGroups = {Membership("u1", 1, 1, 0, FarFuture), Membership("u2", 3, 2, 0, FarFuture)}
  /\ signups = [k \in Users \X EventIds |-> 0]
  /\ procs = [p \in Procs |-> IdleProc]
  /\ last = NoAnswer
  /\ granted = [s \in SubIds |-> subs[s].ingressi]
  /\ rt = NoRt
  /\ race = NoRace
  /\ refreshToken = [u \in Users |-> NoToken]
  /\ spent = {}

NextDouble ==
  \/ \E p \in Procs, u \in Users, e \in EventIds : BookStart(p, u, e)
  \/ \E p \in Procs : BookTxEvent(p)
  \/ \E p \in Procs : BookTxSub(p)
  \/ \E p \in Procs : BookTxInsert(p)
  \/ \E p \in Procs : BookTxUpdate(p)

SpecDouble == InitDouble /\ [][NextDouble]_vars

(* Cancel calls and the admin add-participants operation, from a store     *)
(* where one member has a subscription and the other has none; the admin   *)
(* stops adding once a balance has passed MaxIngressi                      *)
InitDesk ==
  /\ now = FirstInstant
  /\ tz = 0
  /\ events = [e \in EventIds |->
                 [date |-> MaxDay + 1, maxSlots |-> MaxSlots, status |-> "SCHEDULED",
                  category |-> "TRAINING_ALL"]]
  /\ users = [u \in Users |-> "SUBSCRIBED"]
  /\ subs = [s \in SubIds |->
               IF s = 1 THEN [userId |-> "u1", status |-> "ACTIVE", ingressi |-> MaxIngressi,
                              startDate |-> 0, endDate |-> FarFuture]
                        ELSE NoSub]
  /\ userGroups = {Membership("u1", 1, 1, 0, FarFuture)}
  /\ signups = [k \in Users \X EventIds |-> 0]
  /\ procs = [p \in Procs |-> IdleProc]
  /\ last = NoAnswer
  /\ granted = [s \in SubIds |-> subs[s].ingressi]
  /\ rt = NoRt
  /\ race = NoRace
  /\ refreshToken = [u \in Users |-> NoToken]
  /\ spent = {}

NextDesk ==
  \/ \E p \in Procs, u \in Users, e \in EventIds : CancelStart(p, u, e)
  \/ \E p \in Procs : CancelTxDelete(p)
  \/ \E p \in Procs : CancelTxSub(p)
  \/ /\ \A s \in SubIds : subs[s].ingressi <= MaxIngressi
     /\ \E e \in EventIds, ids \in UserIdInputs : AdminAddParticipants(e, ids)

SpecDesk == InitDesk /\ [][NextDesk]_vars

(* DELETE /admin/users/:id: user.update({ status: CANCELLED }), outside a  *)
(* transaction                                                             *)
AdminDisableUserUpdate(p, u) ==
  /\ Idle(p)
  /\ users[u] # "NONE"
  /\ users' = [users EXCEPT ![u] = "CANCELLED"]
  /\ procs' = [procs EXCEPT ![p] = [IdleProc EXCEPT !.pc = "d_signups", !.userId = u]]
  /\ last' = NoAnswer
  /\ rt' = NoRt
  /\ race' = RaceOnGoto
  /\ UNCHANGED <<now, tz, events, subs, userGroups, signups, granted, refreshToken, spent>>

(* then eventSignup.deleteMany({ where: { userId } }): it removes the      *)
(* committed rows of the user and waits for no uncommitted INSERT          *)
AdminDisableUserDeleteMany(p) ==
  /\ procs[p].pc = "d_signups"
  /\ signups' = [k \in DOMAIN signups |->
                   IF k[1] = procs[p].userId THEN 0 ELSE signups[k]]
  /\ Answer(p, "disableUser", procs[p].userId, 0, Resp(200, ""))
  /\ rt' = NoRt
  /\ race' = RaceOnGoto
  /\ UNCHANGED <<now, tz, events, users, subs, userGroups, granted, refreshToken, spent>>

(* Book calls, made with an access token issued before, and the disabling  *)
(* of a member                                                             *)
NextDisable ==
  \/ NextDouble
  \/ \E p \in Procs, u \in Users : AdminDisableUserUpdate(p, u)
  \/ \E p \in Procs : AdminDisableUserDeleteMany(p)

SpecDisable == InitDouble /\ [][NextDisable]_vars

(* --------------------------- refresh tokens --------------------------- *)
(* POST /auth/login: findUnique, the status and the password are tested, *)
(* then user.update({ refreshToken }) with a token signed now            *)
Login(u, valid) ==
  /\ IF users[u] \in {"NONE", "CANCELLED"}
       THEN /\ last' = [op |-> "login", userId |-> u, eventId |-> 0,
                        res |-> Resp(403, "Utente cancellato")]
            /\ UNCHANGED <<refreshToken, spent>>
       ELSE IF ~valid
         THEN /\ last' = [op |-> "login", userId |-> u, eventId |-> 0,
                          res |-> Resp(401, "Credenziali errate")]
              /\ UNCHANGED <<refreshToken, spent>>
         ELSE /\ refreshToken' = [refreshToken EXCEPT ![u] = generateRefreshToken(u, now)]
              /\ spent' = (spent \cup {refreshToken[u]})
                             \ {NoToken, generateRefreshToken(u, now)}
              /\ last' = [op |-> "login", userId |-> u, eventId |-> 0,
                          res |-> Resp(200, "")]
  /\ UNCHANGED <<now, tz, events, users, subs, userGroups, signups, procs, granted, rt, race>>

(* POST /auth/refresh, up to its update: the cookie is read, findFirst    *)
(* looks for a user holding it, jwt.verify tests its signature and expiry *)
(* and the new tokens are signed                                          *)
RefreshFindFirst(p, t) ==
  /\ Idle(p)
  /\ IF t = NoToken
       THEN Answer(p, "refresh", "", 0, Resp(401, "Refresh token mancante"))
       ELSE IF \A u \in Users : refreshToken[u] # t
         THEN Answer(p, "refresh", "", 0, Resp(403, "Refresh token non valido"))
         ELSE \E u \in {x \in Users : refreshToken[x] = t} :
                IF now >= t.iat + 30 * 24
                  THEN Answer(p, "refresh", u, 0, Resp(403, "Refresh token non valido o scaduto"))
                  ELSE /\ procs' = [procs EXCEPT ![p] =
                                      [IdleProc EXCEPT !.pc = "r_update", !.userId = u,
                                                       !.cookie = t, !.at = now]]
                       /\ last' = NoAnswer
  /\ UNCHANGED <<now, tz, events, users, subs, userGroups, signups, granted, rt, race,
                 refreshToken, spent>>

(* POST /auth/refresh, its user.update({ refreshToken: newRefreshToken }) *)
(* and the answer                                                         *)
RefreshUpdate(p) ==
  /\ procs[p].pc = "r_update"
  /\ LET u == procs[p].userId
         newRefreshToken == generateRefreshToken(u, procs[p].at)
     IN /\ refreshToken' = [refreshToken EXCEPT ![u] = newRefreshToken]
        /\ spent' = (spent \cup {procs[p].cookie, refreshToken[u]})
                       \ {NoToken, newRefreshToken}
        /\ Answer(p, "refresh", u, 0, Resp(200, ""))
  /\ UNCHANGED <<now, tz, events, users, subs, userGroups, signups, granted, rt, race>>

(* POST /auth/logout: updateMany({ where: { refreshToken }, data: null }) *)
Logout(t) ==
  /\ refreshToken' = [u \in Users |-> IF t # NoToken /\ refreshToken[u] = t
                                        THEN NoToken ELSE refreshToken[u]]
  /\ spent' = spent \cup ({t} \ {NoToken})
  /\ last' = [op |-> "logout", userId |-> t.userId, eventId |-> 0,
              res |-> Resp(200, "Logout completato")]
  /\ UNCHANGED <<now, tz, events, users, subs, userGroups, signups, procs, granted, rt, race>>

\* sessions from an empty store: members register, log in, refresh and log
\* out; the cookie a client sends is none or a token signed for a user
NextAuth ==
  \/ \E u \in Users, supported \in BOOLEAN : Register(u, supported)
  \/ \E u \in Users, valid \in BOOLEAN : Login(u, valid)
  \/ \E p \in Procs, u \in Users, t \in Instants :
       RefreshFindFirst(p, generateRefreshToken(u, t))
  \/ \E p \in Procs : RefreshFindFirst(p, NoToken)
  \/ \E p \in Procs : RefreshUpdate(p)
  \/ \E u \in Users, t \in Instants : Logout(generateRefreshToken(u, t))
  \/ Logout(NoToken)
  \/ Tick

SpecAuth == InitSub /\ [][NextAuth]_vars

(* ------------------------------- claims ------------------------------- *)

\* C1: for every event, the number of live Signups never exceeds the
\* event's maxSlots, in every state reached by Book and Cancel calls.
C1_CapacityNeverExceeded ==
  \A e \in EventIds : NumSignups(e) <= events[e].maxSlots

\* C2: the credit balance (ingressi) of every Subscription is >= 0 in every
\* state reached by Book and Cancel calls.
C2_CreditNeverNegative ==
  \A s \in SubIds : subs[s].ingressi >= 0

\* C3: for every (member, event) pair at most one live Signup exists in
\* every reachable state.
C3_OneSignupPerPair ==
  \A k \in Users \X EventIds : signups[k] <= 1

\* two Books of one (member, event) pair in flight, one waiting for the
\* other's uncommitted INSERT
C3_Witness ==
  \E p \in Procs, q \in Procs :
    /\ p # q
    /\ Key(p) = Key(q)
    /\ procs[p].pc = "b_insert"
    /\ procs[q].pc = "b_update"

\* the credits debited from the subscriptions of member u
Debited(u) ==
  SumOver({s \in SubIds : subs[s].userId = u},
          [s \in SubIds |-> granted[s] - subs[s].ingressi])

\* C5: Book and Cancel are all-or-nothing: for every member the number of
\* credits debited from the member's subscriptions equals the number of the
\* member's live Signups.
C5_DebitsMatchSignups ==
  \A u \in Users : Debited(u) = NumSignupsBy(u)

C5_Witness ==
  /\ last.res.code \in {409, 500}
  /\ NumSignupsBy(last.userId) > 0

Min(a, b) == IF a <= b THEN a ELSE b

\* C4: when two distinct members, each eligible and holding a credit, call
\* Book concurrently on the same SCHEDULED event with K free slots, exactly
\* min(2, K) of the calls succeed and every other call is rejected with
\* EventFull.
C4_RaceOutcome ==
  race.phase = "done" =>
    /\ race.ok = Min(Cardinality(Procs), race.k)
    /\ race.other = 0

\* C6: a Book that succeeds, followed with no other operation in between by
\* a Cancel of the same (member, event) that succeeds, leaves every credit
\* balance of the store and the event's free-slot count at their values
\* before the Book.
C6_RoundTripRestores ==
  rt.phase = "restored" =>
    /\ \A s \in SubIds : subs[s].ingressi = rt.ingressi[s]
    /\ FreeSlots(rt.eventId) = rt.free

\* the subscription s entitles member u to book at time t
Entitles(s, u, t) ==
  /\ s \in SubIds
  /\ subs[s].userId = u
  /\ subs[s].status = "ACTIVE"
  /\ subs[s].startDate <= t
  /\ subs[s].endDate >= t
  /\ subs[s].ingressi > 0

BookCommits(p) ==
  /\ procs[p].pc \in {"b_event", "b_sub", "b_insert", "b_update"}
  /\ procs'[p].pc = "idle"
  /\ last'.res.code = 201

BookRejected ==
  /\ last.op = "book"
  /\ last.res.code \notin {0, 201}

\* C10: a Book call that is rejected for any reason leaves every Signup and
\* every subscription's credit balance as they were before the call.
C10_RejectedBookChangesNothing ==
  [][BookRejected' => (signups' = signups /\ subs' = subs)]_vars

C10_Witness ==
  /\ last.op = "book"
  /\ last.res = Resp(409, MsgAlreadyBooked)
  /\ NumSignupsBy(last.userId) > 0

\* C7: in every reachable state each member has at most one subscription
\* with status ACTIVE.
C7_AtMostOneActive ==
  \A u \in Users : Cardinality(ActiveSubs(u)) <= 1

\* a call made for a member who had an ACTIVE subscription returns
CreateReturns(p) ==
  /\ procs[p].pc \in {"s_update", "s_create"}
  /\ procs[p].rows # {}
  /\ procs'[p].pc = "idle"

\* C8: createSubscriptionWithGroups applies the cancellation of the old
\* ACTIVE subscription and the creation of the new one together: when it
\* returns the new subscription is the member's only ACTIVE one and the
\* old ones are CANCELLED, and when it fails the subscriptions and the
\* group memberships are as they were.
C8_CreateReplacesActive ==
  [][\A p \in Procs :
       CreateReturns(p) =>
         IF last'.res.code = 201
           THEN \E n \in FreeSubIds :
                  /\ subs'[n].status = "ACTIVE"
                  /\ subs'[n].userId = procs[p].userId
                  /\ \A s \in SubIds \ {n} :
                       subs'[s].userId = procs[p].userId => subs'[s].status # "ACTIVE"
                  /\ \A s \in ActiveSubs(procs[p].userId) : subs'[s].status = "CANCELLED"
           ELSE subs' = subs /\ userGroups' = userGroups
    ]_vars

\* a Book is answered that was called for a pair whose Signup existed at
\* the call and still exists
RetryAnswered ==
  /\ now' = now
  /\ last'.op = "book"
  /\ last'.res.code # 0
  /\ last'.eventId \in EventIds
  /\ signups[<<last'.userId, last'.eventId>>] > 0
  /\ \E p \in Procs :
       /\ procs'[p].pc = "idle"
       /\ \/ procs[p].pc = "idle"
          \/ /\ procs[p].pc \in {"b_event", "b_sub", "b_insert", "b_update"}
             /\ procs[p].booked
             /\ Key(p) = <<last'.userId, last'.eventId>>
       /\ \A q \in Procs \ {p} : procs'[q] = procs[q]

\* C11 (as stated): a Book repeated for a pair after an earlier Book of the
\* pair has succeeded is rejected with AlreadyBooked, creates no second
\* Signup and debits no further credit.
C11_RetryIsAlreadyBooked ==
  [][RetryAnswered =>
       /\ last'.res = Resp(409, MsgAlreadyBooked)
       /\ signups' = signups
       /\ subs' = subs
    ]_vars

\* C11 (amended): a Book repeated for a pair whose Signup is live is
\* rejected, creates no second Signup and debits no credit; the rejection
\* is AlreadyBooked exactly when the call got as far as the INSERT, and
\* otherwise it is the rejection of the check that failed before it.
C11_RetryIsRejected ==
  [][RetryAnswered =>
       /\ last'.res.code \in {403, 409}
       /\ signups' = signups
       /\ subs' = subs
       /\ (last'.res = Resp(409, MsgAlreadyBooked))
            <=> (\E p \in Procs : procs[p].pc = "b_insert" /\ procs'[p].pc = "idle")
    ]_vars

\* a retry was answered with EventFull: the member's own Signup fills the event
C11_Witness ==
  /\ last.op = "book"
  /\ last.res = Resp(403, MsgFull)
  /\ signups[<<last.userId, last.eventId>>] = 1
  /\ NumSignups(last.eventId) = 1

\* a Cancel that passed the cutoff finds no Signup of its pair
CancelFindsNoSignup(p) ==
  /\ procs[p].pc = "c_delete"
  /\ procs'[p].pc = "idle"
  /\ signups[Key(p)] = 0

\* C12: a Cancel for a pair that has no Signup is rejected as a typed
\* 'not booked' rejection, distinct from the answer given to a store error,
\* and leaves every Signup and every credit balance unchanged.
C12_NotBookedIsTyped ==
  [][\A p \in Procs :
       CancelFindsNoSignup(p) =>
         /\ last'.res.message = MsgNotBooked
         /\ last'.res.code # CatchAllCode
         /\ signups' = signups
         /\ subs' = subs
    ]_vars

\* the date and the hour of instant t on the club's wall clock (Europe/Rome)
RomeDay(t)  == (t + RomeOffset) \div 24
RomeHour(t) == (t + RomeOffset) % 24

\* the cutoff rule of the claim, for event e at instant t
CutoffDisallows(e, t) ==
  \/ events[e].date < RomeDay(t)
  \/ events[e].date = RomeDay(t) /\ RomeHour(t) >= CutoffHour

\* C13: the booking cutoff check disallows exactly when the event's date is
\* before the current date on the club's wall clock, or equals it while the
\* hour on that clock is >= 18 (17:xx passes, 18:00 is rejected with
\* CutoffExceeded, yesterday is rejected and a later day passes at any hour).
C13_CutoffRule ==
  (last.op = "canBook" /\ last.eventId \in EventIds) =>
    /\ (last.res.code = 403) <=> CutoffDisallows(last.eventId, now)
    /\ (last.res.code = 200) <=> ~CutoffDisallows(last.eventId, now)
    /\ last.res.code = 403 => last.res.message \in {MsgPastBook, MsgLateBook}

\* C14: for every event and every current time the booking cutoff check
\* allows exactly when the cancellation cutoff check allows.
C14_CutoffSymmetric ==
  \A e \in RequestEventIds :
    canBookEventByEventId(e).ok = canCancelEventByEventId(e).ok

\* the cancellation check has refused an event of the current day at the
\* cutoff hour
C14_Witness ==
  /\ last.op = "canCancel"
  /\ last.res = Resp(403, MsgLateCancel)
  /\ getHours(getNowItaly(now, tz), tz) = CutoffHour
  /\ ~canBookEventByEventId(last.eventId).ok

\* the rule table allows event e to the level DEEP only
DeepOnly(e) ==
  /\ e \in EventIds
  /\ events[e].category \in RuleCodes
  /\ eventRules[events[e].category].allowedLevels = {"DEEP"}

\* the Book of (u, e) is answered by the checks made before the transaction
BookStartAnswers(u, e) ==
  /\ last'.op = "book"
  /\ last'.userId = u
  /\ last'.eventId = e
  /\ last'.res.code # 0
  /\ now' = now
  /\ procs' = procs

\* the Book of (u, e) passes those checks and opens its transaction
BookStartPasses(u, e) ==
  \E p \in Procs :
    /\ procs[p].pc = "idle"
    /\ procs'[p].pc = "b_event"
    /\ procs'[p].userId = u
    /\ procs'[p].eventId = e

\* cutoff, event status, capacity and credit allow a Book of (u, e)
OtherwiseBookable(u, e) ==
  /\ canBookEventByEventId(e).ok
  /\ events[e].status = "SCHEDULED"
  /\ NumSignups(e) < events[e].maxSlots
  /\ ActiveSubsInWindow(u, now) # {}
  /\ \A s \in ActiveSubsInWindow(u, now) : subs[s].ingressi > 0

\* C15: for an event whose rule allows DEEP only, a Book by a member whose
\* memberships resolve to {OPEN, ALL} never passes and, when cutoff, status,
\* capacity and credit allow, is rejected with NotAuthorized; a Book by a
\* member whose memberships resolve to {DEEP, ALL} is never rejected with
\* NotAuthorized and passes whenever cutoff, status, capacity and credit allow.
C15_DeepOnlyEvent ==
  [][\A u \in Users, e \in EventIds :
       (/\ BookStartPasses(u, e) \/ BookStartAnswers(u, e)
        /\ DeepOnly(e)) =>
         /\ uniqueUserLevels(u, now) = {"OPEN", "ALL"} =>
              /\ ~BookStartPasses(u, e)
              /\ (BookStartAnswers(u, e) /\ OtherwiseBookable(u, e))
                   => last'.res = Resp(403, MsgLevel)
         /\ uniqueUserLevels(u, now) = {"DEEP", "ALL"} =>
              /\ BookStartAnswers(u, e) => last'.res.message # MsgLevel
              /\ BookStartAnswers(u, e) => ~OtherwiseBookable(u, e)
    ]_vars

\* a {DEEP, ALL} member holds a Signup of a DEEP-only event and a
\* {OPEN, ALL} member has just been refused for it
C15_Witness ==
  /\ last.op = "book"
  /\ last.res = Resp(403, MsgLevel)
  /\ DeepOnly(last.eventId)
  /\ uniqueUserLevels(last.userId, now) = {"OPEN", "ALL"}
  /\ \E u \in Users :
       /\ uniqueUserLevels(u, now) = {"DEEP", "ALL"}
       /\ signups[<<u, last.eventId>>] = 1

\* the member's resolved tiers meet the allowed tiers of the event's category
TierAllows(u, e) ==
  RuleFor(events[e].category).allowedLevels \cap uniqueUserLevels(u, now) # {}

\* C16: no Book commits a Signup for a member whose resolved tier set, at
\* the moment of the commit, does not intersect the allowed tiers of the
\* event's category, also when an admin replaces or removes the member's
\* group memberships while the Book is in progress.
C16_TierCheckedAtCommit ==
  [][\A p \in Procs :
       BookCommits(p) => TierAllows(procs[p].userId, procs[p].eventId)]_vars

WithinCapacity(e) == NumSignups(e) <= events[e].maxSlots

\* the step is the admin add-participants operation (either route) or an
\* admin edit of an event
AdminCapacityStep ==
  last'.op \in {"addParticipants", "aggiungi", "patchEvent"}

\* C17: the admin add-participants operation and an admin edit of an
\* event's maxSlots go through guards equivalent to Book's: from a state
\* where no event is over capacity, after either of them the event's live
\* Signup count still does not exceed its maxSlots.
C17_AdminKeepsCapacity ==
  [][(AdminCapacityStep /\ \A e \in EventIds : WithinCapacity(e))
       => \A e \in EventIds : WithinCapacity(e)']_vars

\* C18: a Book succeeds only for an event that has status SCHEDULED when
\* the Signup is committed: once an admin has cancelled the event no Book
\* for it succeeds until it is restored, also when the cancellation
\* interleaves with a Book already in progress.
C18_BookOnlyWhileScheduled ==
  [][\A p \in Procs :
       BookCommits(p) => /\ procs[p].eventId \in DOMAIN events
                         /\ events[procs[p].eventId].status = "SCHEDULED"]_vars

\* the memberships counted at asOf: active, and asOf in [validFrom, validTo)
CountedMemberships(u, asOf) ==
  {g \in userGroups : /\ g.userId = u
                      /\ g.isActive
                      /\ g.validFrom <= asOf
                      /\ asOf < g.validTo}

\* C19: tier resolution counts a membership only when isActive is true and
\* validFrom <= asOf < validTo: a membership whose validTo equals asOf, or
\* whose isActive is false, contributes no tier, and the resolved set is the
\* union of the hierarchy expansions of the counted memberships' tiers.
C19_HalfOpenWindow ==
  last.op = "resolveLevels"
    => last.res.levels =
         UNION {LEVEL_HIERARCHY[Group[g.groupId]] : g \in CountedMemberships(last.userId, now)}

\* C20: the hierarchy table is a total function on the tiers
\* {ALL, OPEN, ADVANCED, DEEP}: every tier that a Group can carry has an
\* entry, and each entry is a non-empty set of tiers that contains the tier
\* itself.
C20_HierarchyTotal ==
  last.op = "expandLevel"
    => /\ last.res.message \in DOMAIN LEVEL_HIERARCHY
       /\ last.res.levels # {}
       /\ last.res.message \in last.res.levels

\* the rule the rule table gives for a category code
RuleOfCode(code) ==
  IF code \in RuleCodes
    THEN eventRules[code]
    ELSE [requiresSubscription |-> TRUE,
          allowedLevels |-> {"ALL", "OPEN", "ADVANCED", "DEEP"}]

\* canBookEvent has answered for (u, e) and its answer was decided by the rule
RuleDecided ==
  /\ last.op = "canBookEvent"
  /\ last.eventId \in EventIds
  /\ last.res.message \notin {MsgNotFound, MsgUnavailable, MsgFull, MsgNoIngressi}

\* C21: for an event whose category code has no entry in the rule table
\* the default rule applies (a subscription is required and any one of the
\* tiers ALL, OPEN, ADVANCED, DEEP authorizes); for a code with an entry,
\* exactly that entry's rule is applied.
C21_DefaultRule ==
  RuleDecided =>
    LET rule   == RuleOfCode(events[last.eventId].category)
        levels == uniqueUserLevels(last.userId, now)
    IN  /\ last.res.code = 200 <=> rule.allowedLevels \cap levels # {}
        /\ (last.res.code = 200 /\ rule.requiresSubscription)
             => ActiveSubsInWindow(last.userId, now) # {}

\* a member with tiers {OPEN, ALL} is authorized for an event whose category
\* code has no entry
C21_Witness ==
  /\ RuleDecided
  /\ events[last.eventId].category \notin RuleCodes
  /\ uniqueUserLevels(last.userId, now) = {"OPEN", "ALL"}
  /\ last.res.code = 200

\* the tiers of the groups of the member's valid memberships
MemberTiers(u) == {Group[g.groupId] : g \in activeUserGroups(u, now)}

\* C30: higher tiers subsume lower ones: a member whose only valid
\* membership is in a DEEP group is authorized for events whose category
\* allows only ADVANCED, only OPEN or only ALL, and a member with only
\* ADVANCED is authorized for events that allow only OPEN or only ALL.
C30_HigherSubsumesLower ==
  RuleDecided =>
    LET allowed == RuleFor(events[last.eventId].category).allowedLevels
        tiers   == MemberTiers(last.userId)
    IN  /\ (tiers = {"DEEP"} /\ allowed \in {{"ADVANCED"}, {"OPEN"}, {"ALL"}})
             => last.res.code = 200
        /\ (tiers = {"ADVANCED"} /\ allowed \in {{"OPEN"}, {"ALL"}})
             => last.res.code = 200

\* what the cutoff check decides for event e on a server whose local
\* timezone has the UTC offset o
AllowedOnServer(e, o) ==
  LET nowIt    == getNowItaly(now, o)
      today    == stripTime(nowIt, o)
      eventDay == stripTime(DateColumn(events[e].date), o)
  IN  ~(\/ eventDay < today
        \/ eventDay = today /\ getHours(nowIt, o) >= CutoffHour)

\* C23: the cutoff decision for a given event date and a given instant is
\* the same whatever the server process's local timezone: an event dated
\* today in Rome is never treated as a past day or a later day because of
\* the server's UTC offset.
C23_SameOnEveryServer ==
  (last.op \in {"canBook", "canCancel"} /\ last.eventId \in EventIds) =>
    \A o \in ServerOffsets :
      (last.res.code = 200) <=> AllowedOnServer(last.eventId, o)

\* the status changes of a subscription that the lifecycle allows
StatusSteps ==
  {<<"NONE", "PENDING">>, <<"NONE", "ACTIVE">>, <<"PENDING", "ACTIVE">>,
   <<"ACTIVE", "CANCELLED">>, <<"ACTIVE", "EXPIRED">>}

DoubleClickAnswers(p) ==
  /\ procs[p].pc \in {"b_event", "b_sub", "b_insert", "b_update"}
  /\ procs'[p].pc = "idle"
  /\ ~procs[p].booked
  /\ FreeSlots(procs[p].eventId) >= 1
  /\ \A s \in ActiveSubsInWindow(procs[p].userId, now) : subs[s].ingressi >= 1

\* C24: when the same member issues two Book calls for the same event
\* concurrently, with capacity and credit available for both, exactly one
\* Signup is created and exactly one credit is debited: the call that
\* answers first succeeds, the call that answers after the other one has
\* committed is reported as AlreadyBooked and changes nothing.
C24_DoubleClick ==
  [][\A p \in Procs :
       DoubleClickAnswers(p) =>
         IF signups[Key(p)] = 0
           THEN /\ last'.res.code = 201
                /\ signups' = [signups EXCEPT ![Key(p)] = 1]
                /\ subs' = [subs EXCEPT ![procs[p].sub].ingressi = @ - 1]
           ELSE /\ last'.res = Resp(409, MsgAlreadyBooked)
                /\ signups' = signups
                /\ subs' = subs
    ]_vars

\* one of two concurrent calls of a member has committed and the other,
\* made before that commit, has reached its INSERT
C24_Witness ==
  \E p \in Procs :
    /\ procs[p].pc = "b_insert"
    /\ ~procs[p].booked
    /\ signups[Key(p)] = 1
    /\ FreeSlots(procs[p].eventId) >= 1
    /\ subs[procs[p].sub].ingressi >= 1

\* the store differs only in the Signup of (u, e) and in the balance of at
\* most one subscription, owned by u
OnlyTouches(u, e) ==
  /\ events' = events
  /\ users' = users
  /\ userGroups' = userGroups
  /\ signups' # signups =>
       \A k \in DOMAIN signups : k # <<u, e>> => signups'[k] = signups[k]
  /\ subs' # subs =>
       /\ \A x \in SubIds : subs'[x] = [subs[x] EXCEPT !.ingressi = subs'[x].ingressi]
       /\ \E s \in SubIds : /\ \A x \in SubIds \ {s} : subs'[x] = subs[x]
                            /\ subs'[s] # subs[s] => subs[s].userId = u

\* C27: a Book or Cancel by member m on event e changes nothing except the
\* Signup of (m, e) and the credit balance of one subscription owned by m:
\* the Signups of other events and of other members, every other member's
\* balance and every event's maxSlots and status are unchanged.
C27_FrameOfBookAndCancel ==
  [][\A p \in Procs :
       procs'[p] # procs[p] =>
         IF procs[p].pc = "idle"
           THEN OnlyTouches(procs'[p].userId, procs'[p].eventId)
                  /\ signups' = signups /\ subs' = subs
           ELSE OnlyTouches(procs[p].userId, procs[p].eventId)
    ]_vars

\* a Cancel has just removed a Signup and credited a subscription while
\* another Signup and another member's subscription are in the store
C27_Witness ==
  /\ last.op = "cancel"
  /\ last.res.code = 200
  /\ signups[<<last.userId, last.eventId>>] = 0
  /\ \E k \in DOMAIN signups : signups[k] >= 1
  /\ \E s \in SubIds : subs[s].status = "ACTIVE" /\ subs[s].userId # last.userId

\* the Cancel of p reaches the subscription lookup for a member who has no
\* subscription with status ACTIVE
CancelWithoutActiveSub(p) ==
  /\ procs[p].pc = "c_sub"
  /\ procs'[p].pc = "idle"
  /\ ActiveSubs(procs[p].userId) = {}

\* C26: a Cancel by a member who holds the Signup but has no subscription
\* with status ACTIVE fails and is rolled back as a whole: the Signup still
\* exists afterwards and no credit balance has changed.
C26_CancelWithoutSubRollsBack ==
  [][\A p \in Procs :
       CancelWithoutActiveSub(p) =>
         /\ last'.res.code \notin {200, 201}
         /\ signups[Key(p)] >= 1
         /\ signups' = signups
         /\ subs' = subs
    ]_vars

\* a member without any subscription holds a Signup and their Cancel has
\* just failed
C26_Witness ==
  /\ last.op = "cancel"
  /\ last.res = Resp(CatchAllCode, MsgNoActiveSub)
  /\ ActiveSubs(last.userId) = {}
  /\ signups[<<last.userId, last.eventId>>] = 1

\* C25: credits are credited only per cancellation of a debited booking:
\* every +1 applied by Cancel matches an earlier -1 applied by a Book of
\* the same (member, event) to that subscription, so a subscription's
\* credit balance never exceeds the number of entries it was granted.
C25_CreditWithinGrant ==
  \A s \in SubIds : subs[s].ingressi <= granted[s]

\* C28: a member whose status is CANCELLED holds no Signup: once the
\* disabling of a user has answered, every Signup of that user is removed
\* and no Signup for the user is created while the status stays CANCELLED.
C28_DisabledHoldsNoSignup ==
  \A u \in Users :
    (/\ users[u] = "CANCELLED"
     /\ \A p \in Procs : ~(procs[p].pc = "d_signups" /\ procs[p].userId = u))
      => NumSignupsBy(u) = 0

\* a refresh request that is answered 200
RefreshAccepts(p) ==
  /\ procs[p].pc = "r_update"
  /\ procs'[p].pc = "idle"
  /\ last'.op = "refresh" /\ last'.res.code = 200

\* C29: /auth/refresh accepts at most one refresh token per user, the one
\* most recently issued to that user by login, register or refresh: a
\* request is never answered 200 for a token that was already used for a
\* refresh, was replaced by a later login or was presented at logout, also
\* when two refresh requests with the same token run concurrently
C29_OnlyLatestTokenRefreshes ==
  [][\A p \in Procs :
       RefreshAccepts(p) =>
         /\ procs[p].cookie \notin spent
         /\ procs[p].cookie = refreshToken[procs[p].userId]]_vars

====
